---- MODULE Spec2Model ----
(***************************************************************************)
(* Model of sqlalchemy_firebird/fdb.py: the fdb dialect adapter            *)
(* (FBDialect_fdb) and its blob result processor (_FBBlob).                *)
(*                                                                         *)
(* Python values are tagged records of one shape, so that values of        *)
(* different Python types can be compared.  A Python str is a sequence of  *)
(* one-character strings; a dict is a function whose DOMAIN is its keys.   *)
(***************************************************************************)
EXTENDS Integers, Sequences, FiniteSets, TLC

VARIABLES
    dialect,     \* the FBDialect_fdb instance: its stored attributes
    request,     \* the call being made / last made: [op, arg]
    result,      \* its outcome: NotCalled, a return or a raise
    db_calls,    \* info-codes passed to fbconn.db_info during the call, in order
    blob_calls,  \* methods invoked on the blob value during the call, in order
    log          \* completed calls, oldest first (kept by the sequence specification)

vars == <<dialect, request, result, db_calls, blob_calls, log>>

----------------------------------------------------------------------------
(* Bounds of the model *)

MaxQueryKeys == 2   \* most keys in one URL query
MaxCalls == 3       \* most calls in one sequence of calls on a dialect

----------------------------------------------------------------------------
(* Python values *)

None == [tag |-> "none", s |-> <<>>, n |-> 0, items |-> <<>>]
StrV(chars) == [tag |-> "str", s |-> chars, n |-> 0, items |-> <<>>]
IntV(i) == [tag |-> "int", s |-> <<>>, n |-> i, items |-> <<>>]
TupleV(elems) == [tag |-> "tuple", s |-> <<>>, n |-> 0, items |-> elems]

\* Python truth value of a value (None, "", 0 and () are false)
Truthy(v) ==
    \/ v.tag = "str" /\ v.s # <<>>
    \/ v.tag = "int" /\ v.n # 0
    \/ v.tag = "tuple" /\ v.items # <<>>

\* an exception instance: its class, the call that raised it, and __cause__
Exc(type, site) == [type |-> type, site |-> site, cause |-> <<>>]

Return(v) == [kind |-> "return", val |-> v]
Raise(e) == [kind |-> "raise", exc |-> e]
NotCalled == [kind |-> "pending"]

----------------------------------------------------------------------------
(* str(int) and int(str) *)

Digits == <<"0", "1", "2", "3", "4", "5", "6", "7", "8", "9">>
DigitChars == {Digits[i] : i \in 1..10}
DigitValue(c) == (CHOOSE i \in 1..10 : Digits[i] = c) - 1

RECURSIVE NatToStr(_)
NatToStr(i) ==
    IF i < 10 THEN <<Digits[i + 1]>>
    ELSE Append(NatToStr(i \div 10), Digits[(i % 10) + 1])

\* "%s" % i for an int i
IntToStr(i) == IF i < 0 THEN <<"-">> \o NatToStr(-i) ELSE NatToStr(i)

RECURSIVE StripLeft(_)
StripLeft(chars) ==
    IF chars # <<>> /\ Head(chars) = " " THEN StripLeft(Tail(chars)) ELSE chars

RECURSIVE StripRight(_)
StripRight(chars) ==
    IF chars # <<>> /\ chars[Len(chars)] = " "
    THEN StripRight(SubSeq(chars, 1, Len(chars) - 1))
    ELSE chars

\* the digits part of an int literal: digits, single underscores between them
IsDigitBody(chars) ==
    /\ chars # <<>>
    /\ \A i \in 1..Len(chars) : chars[i] \in DigitChars \cup {"_"}
    /\ chars[1] # "_"
    /\ chars[Len(chars)] # "_"
    /\ \A i \in 1..(Len(chars) - 1) : ~(chars[i] = "_" /\ chars[i + 1] = "_")

RECURSIVE DigitBodyValue(_)
DigitBodyValue(chars) ==
    IF chars = <<>> THEN 0
    ELSE LET last == chars[Len(chars)]
             rest == SubSeq(chars, 1, Len(chars) - 1)
         IN  IF last = "_" THEN DigitBodyValue(rest)
             ELSE 10 * DigitBodyValue(rest) + DigitValue(last)

Unsigned(chars) ==
    IF chars # <<>> /\ Head(chars) \in {"+", "-"} THEN Tail(chars) ELSE chars

\* int(v): a str is parsed as a base-10 literal (ValueError if it is none),
\* an int is itself, anything else is a TypeError
int(v) ==
    IF v.tag = "int" THEN Return(v)
    ELSE IF v.tag = "str" THEN
        LET t == StripRight(StripLeft(v.s))
            body == Unsigned(t)
        IN  IF IsDigitBody(body)
            THEN Return(IntV(IF t[1] = "-" THEN -DigitBodyValue(body)
                                          ELSE DigitBodyValue(body)))
            ELSE Raise(Exc("ValueError", "int"))
    ELSE Raise(Exc("TypeError", "int"))

----------------------------------------------------------------------------
(* dict operations *)

EmptyDict == [k \in {} |-> None]
Has(d, k) == k \in DOMAIN d
DictSet(d, k, v) == [x \in DOMAIN d \cup {k} |-> IF x = k THEN v ELSE d[x]]
DictDel(d, k) == [x \in DOMAIN d \ {k} |-> d[x]]
\* d.update(e)
DictUpdate(d, e) ==
    [x \in DOMAIN d \cup DOMAIN e |-> IF x \in DOMAIN e THEN e[x] ELSE d[x]]

----------------------------------------------------------------------------
(* FBDialect_fdb.create_connect_args *)

\* the URL attributes url.translate_connect_args walks, in its order
UrlAttributes == <<"host", "database", "username", "password", "port">>

\* url.translate_connect_args(username=name): every URL attribute with a true
\* value, under its own name, the username under `name`
RECURSIVE TranslateFrom(_, _, _)
TranslateFrom(url, name, i) ==
    IF i > Len(UrlAttributes) THEN EmptyDict
    ELSE LET sname == UrlAttributes[i]
             key == IF sname = "username" THEN name ELSE sname
             rest == TranslateFrom(url, name, i + 1)
         IN  IF Truthy(url[sname]) THEN DictSet(rest, key, url[sname]) ELSE rest

\* the same with the username left under its own name
translate_connect_args_NoRename(url, name) == TranslateFrom(url, "username", 1)

translate_connect_args(url, name) == TranslateFrom(url, name, 1)

\* "%s" % v
Format(v) == IF v.tag = "int" THEN IntToStr(v.n) ELSE v.s

\* the same with the port left in the options
FoldPort_KeepPort(opts) ==
    IF Has(opts, "port") /\ Truthy(opts["port"])
    THEN IF Has(opts, "host")
         THEN Return(DictSet(opts, "host",
                  StrV(Format(opts["host"]) \o <<"/">> \o Format(opts["port"]))))
         ELSE Raise(Exc("KeyError", "opts[host]"))
    ELSE Return(opts)

\* the same without the test for a port: opts.get("port") is formatted into
\* the host whether it is there or not
FoldPort_Unconditional(opts) ==
    IF Has(opts, "host")
    THEN Return(DictDel(
             DictSet(opts, "host",
                     StrV(Format(opts["host"]) \o <<"/">> \o
                          (IF Has(opts, "port") THEN Format(opts["port"])
                           ELSE <<"N", "o", "n", "e">>))),
             "port"))
    ELSE Raise(Exc("KeyError", "opts[host]"))

\* lines 103-105: a port is appended to the host as host/port and removed;
\* opts["host"] of a dict without a host is a KeyError
FoldPort(opts) ==
    IF Has(opts, "port") /\ Truthy(opts["port"])
    THEN IF Has(opts, "host")
         THEN Return(DictDel(
                  DictSet(opts, "host",
                          StrV(Format(opts["host"]) \o <<"/">> \o Format(opts["port"]))),
                  "port"))
         ELSE Raise(Exc("KeyError", "opts[host]"))
    ELSE Return(opts)

\* the merge the other way round: the options already set win
MergeQuery_KeepOpts(opts, query) == DictUpdate(query, opts)

\* line 106: opts.update(url.query)
MergeQuery(opts, query) == DictUpdate(opts, query)

\* the same without the coercion
coerce_kw_type_Skip(kw, key) == Return(kw)

\* util.coerce_kw_type(kw, key, int): kw[key], when present, not None and no
\* int, is replaced by int(kw[key])
coerce_kw_type(kw, key) ==
    IF Has(kw, key) /\ kw[key].tag # "int" /\ kw[key] # None
    THEN LET c == int(kw[key])
         IN  IF c.kind = "return" THEN Return(DictSet(kw, key, c.val)) ELSE c
    ELSE Return(kw)

\* the call's outcome and the dialect after it
create_connect_args(self, url) ==
    LET folded == FoldPort(translate_connect_args(url, "user"))
    IN  IF folded.kind = "raise" THEN [self |-> self, result |-> folded]
        ELSE LET coerced == coerce_kw_type(MergeQuery(folded.val, url.query), "type_conv")
             IN  IF coerced.kind = "raise" THEN [self |-> self, result |-> coerced]
                 ELSE [self |-> self,
                       result |-> Return([args |-> <<>>, opts |-> coerced.val])]

----------------------------------------------------------------------------
(* FBDialect_fdb._get_server_version_info *)

\* A version string, "LI-V6.3.3.12981 Firebird 2.0", by the numbers the base
\* dialect's grammar reads from it: the four of the signature and the two of
\* the trailing engine version (<<>> when the string has none)
VersionString(sig, engine) == [sig |-> sig, engine |-> engine]

\* FBDialect_kinterbasdb._parse_version_info: the (major, minor, build) of the
\* server, from the engine version when the string has one
_parse_version_info(version) ==
    IF version.engine # <<>>
    THEN Return([major |-> version.engine[1], minor |-> version.engine[2],
                 build |-> version.sig[4]])
    ELSE Return([major |-> version.sig[1], minor |-> version.sig[2],
                 build |-> version.sig[3]])

\* fbconn.db_info(code): what the connection answers for the info-code
db_info(fbconn, code) == IF code = 103 THEN fbconn.info103 ELSE fbconn.info12

\* the test of line 123 the wrong way round
isc_info_firebird_version_Inverted(self) == IF self.is_interbase THEN 103 ELSE 12

\* line 123
isc_info_firebird_version(self) == IF ~self.is_interbase THEN 103 ELSE 12

\* lines 130-132: the code of the second call
AlternateCode(code) == IF code = 103 THEN 12 ELSE 103

\* raise ee, without "from e"
RaiseFrom_Unchained(ee, e) == Raise(ee)

\* raise ee from e
RaiseFrom(ee, e) == Raise([ee EXCEPT !.cause = <<e>>])

\* the same, remembering on the dialect which info-code answered
_get_server_version_info_Remember(self, connection) ==
    LET code == isc_info_firebird_version(self)
        fbconn == connection.connection
        first == db_info(fbconn, code)
    IN  IF first.kind = "return"
        THEN [self |-> self, db_calls |-> <<code>>,
              result |-> _parse_version_info(first.val)]
        ELSE LET second == db_info(fbconn, AlternateCode(code))
             IN  IF second.kind = "return"
                 THEN [self |-> [self EXCEPT !.is_interbase = ~self.is_interbase],
                       db_calls |-> <<code, AlternateCode(code)>>,
                       result |-> _parse_version_info(second.val)]
                 ELSE [self |-> self, db_calls |-> <<code, AlternateCode(code)>>,
                       result |-> RaiseFrom(second.exc, first.exc)]

\* the call's outcome, the db_info calls it made and the dialect after it
_get_server_version_info(self, connection) ==
    LET code == isc_info_firebird_version(self)
        fbconn == connection.connection
        first == db_info(fbconn, code)
    IN  IF first.kind = "return"
        THEN [self |-> self, db_calls |-> <<code>>,
              result |-> _parse_version_info(first.val)]
        ELSE LET second == db_info(fbconn, AlternateCode(code))
             IN  IF second.kind = "return"
                 THEN [self |-> self, db_calls |-> <<code, AlternateCode(code)>>,
                       result |-> _parse_version_info(second.val)]
                 ELSE [self |-> self, db_calls |-> <<code, AlternateCode(code)>>,
                       result |-> RaiseFrom(second.exc, first.exc)]

----------------------------------------------------------------------------
(* _FBBlob.result_processor *)

\* A value of a blob column: None, plain bytes, a str, or a driver handle.
\* data are the bytes it holds; realize is "ok" or the class of the error
\* that bytes(value) raises
BlobValue(kind, data, realize) == [kind |-> kind, data |-> data, realize |-> realize]
NoneBlob == BlobValue("none", <<>>, "ok")
Bytes(data) == BlobValue("bytes", data, "ok")

\* bytes(value)
bytes(value) ==
    CASE value.kind = "bytes" -> Return(value)
      [] value.kind = "str" -> Raise(Exc("TypeError", "bytes"))
      [] value.kind = "handle" ->
            IF value.realize = "ok" THEN Return(Bytes(value.data))
            ELSE Raise(Exc(value.realize, "bytes"))

\* value.close(): only a handle has the method
close(value) ==
    IF value.kind = "handle" THEN Return(NoneBlob)
    ELSE Raise(Exc("AttributeError", "close"))

\* the same without value.close() in the handler
process_NoClose(value) ==
    IF value # NoneBlob
    THEN LET b == bytes(value)
         IN  IF b.kind = "return"
             THEN [blob_calls |-> <<"bytes">>, result |-> Return(b.val)]
             ELSE IF b.exc.type = "TypeError"
             THEN [blob_calls |-> <<"bytes">>, result |-> Return(NoneBlob)]
             ELSE [blob_calls |-> <<"bytes">>, result |-> b]
    ELSE [blob_calls |-> <<>>, result |-> Return(value)]

\* the same with the handler closing the value and raising the error again
process_Reraise(value) ==
    IF value # NoneBlob
    THEN LET b == bytes(value)
         IN  IF b.kind = "return"
             THEN [blob_calls |-> <<"bytes">>, result |-> Return(b.val)]
             ELSE IF b.exc.type = "TypeError"
             THEN LET c == close(value)
                  IN  IF c.kind = "return"
                      THEN [blob_calls |-> <<"bytes", "close">>, result |-> b]
                      ELSE [blob_calls |-> <<"bytes">>, result |-> c]
             ELSE [blob_calls |-> <<"bytes">>, result |-> b]
    ELSE [blob_calls |-> <<>>, result |-> Return(value)]

\* the processor's outcome and the methods it invoked on the value
process(value) ==
    IF value # NoneBlob
    THEN LET b == bytes(value)
         IN  IF b.kind = "return"
             THEN [blob_calls |-> <<"bytes">>, result |-> Return(b.val)]
             ELSE IF b.exc.type = "TypeError"
             THEN LET c == close(value)
                  IN  IF c.kind = "return"
                      THEN [blob_calls |-> <<"bytes", "close">>, result |-> Return(NoneBlob)]
                      ELSE [blob_calls |-> <<"bytes">>, result |-> c]
             ELSE [blob_calls |-> <<"bytes">>, result |-> b]
    ELSE [blob_calls |-> <<>>, result |-> Return(value)]

----------------------------------------------------------------------------
(* The inputs the calls are made with *)

\* FBDialect_fdb(enable_rowcount=..., retaining=..., is_interbase=...)
Dialects == [is_interbase : BOOLEAN, enable_rowcount : BOOLEAN, retaining : BOOLEAN]

Hosts == {None, StrV(<<>>), StrV(<<"h">>)}
Ports == {None, IntV(0), IntV(3050)}
Usernames == {None, StrV(<<>>), StrV(<<"u">>)}
Passwords == {None, StrV(<<"p">>)}
Databases == {None, StrV(<<"d">>)}

QueryKeys ==
    {"host", "port", "user", "username", "password", "database", "charset", "type_conv"}
\* a query value is a str, or a tuple of strs when the key is given more than once
TypeConvValues ==
    {StrV(<<"2">>), StrV(<<"1", "2">>), StrV(<<"-", "1">>), StrV(<<"a">>), StrV(<<>>),
     TupleV(<<<<"1">>, <<"2">>>>)}
QueryValues(k) == IF k = "type_conv" THEN TypeConvValues ELSE {StrV(<<"q">>)}
AllQueryValues == UNION {QueryValues(k) : k \in QueryKeys}
QueriesOver(keys, most) ==
    UNION {{q \in [K -> AllQueryValues] : \A k \in K : q[k] \in QueryValues(k)} :
           K \in {S \in SUBSET keys : Cardinality(S) <= most}}
Queries == QueriesOver(QueryKeys, MaxQueryKeys)

URLsOver(hosts, ports, usernames, passwords, databases, queries) ==
    [host : hosts, port : ports, username : usernames, password : passwords,
     database : databases, query : queries]
URLs == URLsOver(Hosts, Ports, Usernames, Passwords, Databases, Queries)

FirebirdVersion == VersionString(<<6, 3, 3, 12981>>, <<2, 0>>)
FirebirdVersion25 == VersionString(<<6, 3, 5, 26540>>, <<2, 5>>)
InterbaseVersion == VersionString(<<7, 1, 0, 100>>, <<>>)
VersionStrings == {FirebirdVersion, FirebirdVersion25, InterbaseVersion}

\* what db_info answers for one info-code: a version string, or an error
DbInfoOutcomes(site) ==
    {Return(v) : v \in VersionStrings} \cup {Raise(Exc("DatabaseError", site))}
\* the toolkit's connection wraps the driver's connection
Connections ==
    {[connection |-> [info103 |-> a, info12 |-> b]] :
        a \in DbInfoOutcomes("db_info(103)"), b \in DbInfoOutcomes("db_info(12)")}

BlobData == {<<>>, <<1, 2>>}
RealizeOutcomes == {"ok", "TypeError", "ValueError", "DatabaseError"}
BlobValues ==
    {NoneBlob, BlobValue("str", <<>>, "TypeError")}
        \cup {Bytes(d) : d \in BlobData}
        \cup {BlobValue("handle", d, r) : d \in BlobData, r \in RealizeOutcomes}

Request(op, arg) == [op |-> op, arg |-> arg]
Requests ==
    {Request("create_connect_args", u) : u \in URLs}
        \cup {Request("_get_server_version_info", c) : c \in Connections}
        \cup {Request("process", v) : v \in BlobValues}

\* the inputs of the sequences of calls
SeqURLs ==
    URLsOver({StrV(<<"h">>)}, {None, IntV(3050)}, {StrV(<<"u">>)}, {None}, {StrV(<<"d">>)},
             {EmptyDict, [k \in {"type_conv"} |-> StrV(<<"2">>)],
              [k \in {"type_conv"} |-> StrV(<<"a">>)]})
SeqConnections ==
    {c \in Connections :
        /\ c.connection.info103 \in {Return(FirebirdVersion), Raise(Exc("DatabaseError", "db_info(103)"))}
        /\ c.connection.info12 \in {Return(InterbaseVersion), Raise(Exc("DatabaseError", "db_info(12)"))}}
SeqBlobValues ==
    {NoneBlob, Bytes(<<1, 2>>), BlobValue("handle", <<1, 2>>, "TypeError")}

----------------------------------------------------------------------------
(* The calls *)

\* FBDialect_fdb.__init__: is_interbase is stored, the rest is forwarded to
\* the base dialect, which stores it
__init__(enable_rowcount, retaining, is_interbase) ==
    [is_interbase |-> is_interbase, enable_rowcount |-> enable_rowcount,
     retaining |-> retaining]

CreateConnectArgs(url) ==
    LET r == create_connect_args(dialect, url)
    IN  /\ request' = Request("create_connect_args", url)
        /\ result' = r.result
        /\ dialect' = r.self
        /\ db_calls' = <<>>
        /\ blob_calls' = <<>>

GetServerVersionInfo(connection) ==
    LET r == _get_server_version_info(dialect, connection)
    IN  /\ request' = Request("_get_server_version_info", connection)
        /\ result' = r.result
        /\ dialect' = r.self
        /\ db_calls' = r.db_calls
        /\ blob_calls' = <<>>

Process(value) ==
    LET r == process(value)
    IN  /\ request' = Request("process", value)
        /\ result' = r.result
        /\ blob_calls' = r.blob_calls
        /\ db_calls' = <<>>
        /\ UNCHANGED dialect

----------------------------------------------------------------------------
(* One call, on every input: the dialect is constructed and a request is made *)

Init ==
    /\ \E er \in BOOLEAN, rt \in BOOLEAN, ib \in BOOLEAN : dialect = __init__(er, rt, ib)
    /\ request \in Requests
    /\ result = NotCalled
    /\ db_calls = <<>>
    /\ blob_calls = <<>>
    /\ log = <<>>

DoCreateConnectArgs ==
    /\ request.op = "create_connect_args"
    /\ CreateConnectArgs(request.arg)
    /\ UNCHANGED log

DoGetServerVersionInfo ==
    /\ request.op = "_get_server_version_info"
    /\ GetServerVersionInfo(request.arg)
    /\ UNCHANGED log

DoProcess ==
    /\ request.op = "process"
    /\ Process(request.arg)
    /\ UNCHANGED log

Next == DoCreateConnectArgs \/ DoGetServerVersionInfo \/ DoProcess

Spec == Init /\ [][Next]_vars

----------------------------------------------------------------------------
(* Sequences of calls on one dialect *)

InitSeq ==
    /\ \E er \in BOOLEAN, rt \in BOOLEAN, ib \in BOOLEAN : dialect = __init__(er, rt, ib)
    /\ request = Request("__init__", None)
    /\ result = NotCalled
    /\ db_calls = <<>>
    /\ blob_calls = <<>>
    /\ log = <<>>

\* the call just made is appended to the log, with the flags it was made under
Logged ==
    log' = Append(log, [request |-> request', result |-> result', flags |-> dialect])

SeqCreateConnectArgs ==
    /\ Len(log) < MaxCalls
    /\ \E url \in SeqURLs : CreateConnectArgs(url)
    /\ Logged

SeqGetServerVersionInfo ==
    /\ Len(log) < MaxCalls
    /\ \E connection \in SeqConnections : GetServerVersionInfo(connection)
    /\ Logged

SeqProcess ==
    /\ Len(log) < MaxCalls
    /\ \E value \in SeqBlobValues : Process(value)
    /\ Logged

NextSeq == SeqCreateConnectArgs \/ SeqGetServerVersionInfo \/ SeqProcess

SpecSeq == InitSeq /\ [][NextSeq]_vars

----------------------------------------------------------------------------
(* What the properties read from a state *)

Called(op) == request.op = op /\ result.kind # "pending"
Returned(op) == request.op = op /\ result.kind = "return"

\* the decimal text of the ports the URLs are built with
PortText(port) == IF port = 3050 THEN <<"3", "0", "5", "0">> ELSE <<"0">>
\* "<host>/<port>"
HostSlashPort(url) == StrV(url.host.s \o <<"/">> \o PortText(url.port.n))

\* what the two db_info calls of the connection of the request answer
Info103 == request.arg.connection.info103
Info12 == request.arg.connection.info12

NumberOf(calls, name) == Cardinality({i \in 1..Len(calls) : calls[i] = name})

----------------------------------------------------------------------------
(* Server version detection *)

\* C1 as stated, for every dialect configuration: db_info(103) succeeding
\* means its result is parsed and no other db_info call is made; db_info(103)
\* raising and db_info(12) succeeding means the result of db_info(12), the
\* fallback, is parsed and returned; both raising means the call raises an
\* error whose cause is the failure of db_info(103)
C1_AnyConfiguration ==
    Called("_get_server_version_info") =>
        /\ Info103.kind = "return" =>
              /\ db_calls = <<103>>
              /\ result = _parse_version_info(Info103.val)
        /\ (Info103.kind = "raise" /\ Info12.kind = "return") =>
              /\ db_calls = <<103, 12>>
              /\ result = _parse_version_info(Info12.val)
        /\ (Info103.kind = "raise" /\ Info12.kind = "raise") =>
              /\ result.kind = "raise"
              /\ result.exc.cause = <<Info103.exc>>

\* C1, amended: the same, for a dialect whose is_interbase flag is not set
C1_FirebirdConfiguration ==
    (Called("_get_server_version_info") /\ ~dialect.is_interbase) =>
        /\ Info103.kind = "return" =>
              /\ db_calls = <<103>>
              /\ result = _parse_version_info(Info103.val)
        /\ (Info103.kind = "raise" /\ Info12.kind = "return") =>
              /\ db_calls = <<103, 12>>
              /\ result = _parse_version_info(Info12.val)
        /\ (Info103.kind = "raise" /\ Info12.kind = "raise") =>
              /\ result.kind = "raise"
              /\ result.exc.cause = <<Info103.exc>>

\* the fallback was used: 103 failed, 12 answered, and its answer is returned
C1_Witness ==
    /\ Called("_get_server_version_info")
    /\ ~dialect.is_interbase
    /\ Info103.kind = "raise"
    /\ Info12 = Return(InterbaseVersion)
    /\ db_calls = <<103, 12>>
    /\ result = Return([major |-> 7, minor |-> 1, build |-> 0])

\* C2: the first db_info call uses 12 when is_interbase is set and 103
\* otherwise; a second call is made only if the first raised, with the other
\* code; when both raise the caller gets the second failure with the first as
\* its cause; there is never a third call
C2_ProbeOrder ==
    Called("_get_server_version_info") =>
        LET fbconn == request.arg.connection
            primary == IF dialect.is_interbase THEN 12 ELSE 103
            other == IF dialect.is_interbase THEN 103 ELSE 12
            first == IF primary = 103 THEN fbconn.info103 ELSE fbconn.info12
            second == IF primary = 103 THEN fbconn.info12 ELSE fbconn.info103
        IN  /\ Len(db_calls) \in {1, 2}
            /\ db_calls[1] = primary
            /\ Len(db_calls) = 2 => (first.kind = "raise" /\ db_calls[2] = other)
            /\ (first.kind = "raise" /\ second.kind = "raise") =>
                  /\ db_calls = <<primary, other>>
                  /\ result.kind = "raise"
                  /\ result.exc.type = second.exc.type
                  /\ result.exc.site = second.exc.site
                  /\ result.exc.cause = <<first.exc>>

\* an Interbase dialect on a connection where both probes fail
C2_Witness ==
    /\ Called("_get_server_version_info")
    /\ dialect.is_interbase
    /\ Info103.kind = "raise"
    /\ Info12.kind = "raise"
    /\ db_calls = <<12, 103>>
    /\ result.kind = "raise"
    /\ result.exc.site = "db_info(103)"

----------------------------------------------------------------------------
(* Connection argument construction *)

Url == request.arg
Opts == result.val.opts

\* C3 as stated: whatever the query, the options returned for a URL with a
\* host and a port have host "<host>/<port>" and no port key
C3_AnyQuery ==
    (Returned("create_connect_args") /\ Url.host # None /\ Url.port # None) =>
        /\ Has(Opts, "host")
        /\ Opts["host"] = HostSlashPort(Url)
        /\ ~Has(Opts, "port")

\* C3, amended: the options returned for a URL with a non-empty host and a
\* non-zero port, whose query has neither a host nor a port key, have host
\* "<host>/<port>" and no port key
C3_HostSlashPort ==
    (/\ Returned("create_connect_args")
     /\ Truthy(Url.host)
     /\ Truthy(Url.port)
     /\ ~Has(Url.query, "host")
     /\ ~Has(Url.query, "port")) =>
        /\ Has(Opts, "host")
        /\ Opts["host"] = HostSlashPort(Url)
        /\ ~Has(Opts, "port")

\* host h and port 3050 came out as "h/3050", with other keys in the query
C3_Witness ==
    /\ Returned("create_connect_args")
    /\ Url.host = StrV(<<"h">>)
    /\ Url.port = IntV(3050)
    /\ DOMAIN Url.query = {"charset", "type_conv"}
    /\ Opts["host"] = StrV(<<"h", "/", "3", "0", "5", "0">>)
    /\ ~Has(Opts, "port")

\* C4 as stated: whatever the query, the options returned for a URL with a
\* username carry it under user, and have no username key
C4_AnyQuery ==
    (Returned("create_connect_args") /\ Url.username # None) =>
        /\ Has(Opts, "user")
        /\ Opts["user"] = Url.username
        /\ ~Has(Opts, "username")

\* C4, amended: the options returned for a URL with a non-empty username,
\* whose query has neither a user nor a username key, carry the username
\* under user and have no username key
C4_UserNotUsername ==
    (/\ Returned("create_connect_args")
     /\ Truthy(Url.username)
     /\ ~Has(Url.query, "user")
     /\ ~Has(Url.query, "username")) =>
        /\ Has(Opts, "user")
        /\ Opts["user"] = Url.username
        /\ ~Has(Opts, "username")

\* username u came out under user, with other keys in the query
C4_Witness ==
    /\ Returned("create_connect_args")
    /\ Url.username = StrV(<<"u">>)
    /\ DOMAIN Url.query = {"host", "password"}
    /\ Opts["user"] = StrV(<<"u">>)
    /\ ~Has(Opts, "username")

\* the integer a numeric type_conv string of the queries stands for
TypeConvNumber(v) ==
    CASE v = StrV(<<"2">>) -> 2
      [] v = StrV(<<"1", "2">>) -> 12
      [] v = StrV(<<"-", "1">>) -> -1
NumericTypeConv == {StrV(<<"2">>), StrV(<<"1", "2">>), StrV(<<"-", "1">>)}

\* C6 as stated: a numeric type_conv string is returned as its integer, "2"
\* as 2; a type_conv that is not numeric makes the call raise a TypeError and
\* return nothing; without type_conv in the query no type_conv key is added
C6_TypeError ==
    Called("create_connect_args") =>
        /\ (Has(Url.query, "type_conv") /\ Url.query["type_conv"] \in NumericTypeConv) =>
              (result.kind = "return" =>
                  /\ Has(Opts, "type_conv")
                  /\ Opts["type_conv"] = IntV(TypeConvNumber(Url.query["type_conv"])))
        /\ (Has(Url.query, "type_conv") /\ Url.query["type_conv"] \notin NumericTypeConv) =>
              /\ result.kind = "raise"
              /\ result.exc.type = "TypeError"
        /\ ~Has(Url.query, "type_conv") =>
              (result.kind = "return" => ~Has(Opts, "type_conv"))

\* the call fails before the query is read: a port is given but no host
PortWithoutHost == Truthy(Url.port) /\ ~Truthy(Url.host)

\* C6, amended: a numeric type_conv string is returned as its integer, "2" as
\* 2; a type_conv string that is no integer literal makes the call raise a
\* ValueError, and a type_conv given more than once (a tuple) a TypeError, and
\* return nothing, unless the URL has a port and no host, where the call has
\* raised a KeyError before; without type_conv in the query no type_conv key
\* is added
C6_TypeConv ==
    Called("create_connect_args") =>
        /\ (Has(Url.query, "type_conv") /\ Url.query["type_conv"] \in NumericTypeConv) =>
              (result.kind = "return" =>
                  /\ Has(Opts, "type_conv")
                  /\ Opts["type_conv"] = IntV(TypeConvNumber(Url.query["type_conv"])))
        /\ (Has(Url.query, "type_conv") /\ Url.query["type_conv"] \notin NumericTypeConv) =>
              /\ result.kind = "raise"
              /\ result.exc.type =
                    IF PortWithoutHost THEN "KeyError"
                    ELSE IF Url.query["type_conv"].tag = "str" THEN "ValueError"
                    ELSE "TypeError"
        /\ ~Has(Url.query, "type_conv") =>
              (result.kind = "return" => ~Has(Opts, "type_conv"))

\* type_conv "2" came out as the integer 2
C6_Witness ==
    /\ Returned("create_connect_args")
    /\ Has(Url.query, "type_conv")
    /\ Url.query["type_conv"] = StrV(<<"2">>)
    /\ Opts["type_conv"] = IntV(2)

\* C7 as stated: whatever the query, the options returned for a URL without
\* a port have the URL's host, unchanged, and no port key
C7_AnyQuery ==
    (Returned("create_connect_args") /\ Url.port = None) =>
        /\ Truthy(Url.host) => (Has(Opts, "host") /\ Opts["host"] = Url.host)
        /\ ~Truthy(Url.host) => ~Has(Opts, "host")
        /\ ~Has(Opts, "port")

\* C7, amended: the options returned for a URL without a port, whose query
\* has neither a host nor a port key, have the URL's host, unchanged, and no
\* port key
C7_HostUnchanged ==
    (/\ Returned("create_connect_args")
     /\ Url.port = None
     /\ ~Has(Url.query, "host")
     /\ ~Has(Url.query, "port")) =>
        /\ Truthy(Url.host) => (Has(Opts, "host") /\ Opts["host"] = Url.host)
        /\ ~Truthy(Url.host) => ~Has(Opts, "host")
        /\ ~Has(Opts, "port")

\* host h without a port came out as h, with other keys in the query
C7_Witness ==
    /\ Returned("create_connect_args")
    /\ Url.host = StrV(<<"h">>)
    /\ Url.port = None
    /\ DOMAIN Url.query = {"user", "charset"}
    /\ Opts["host"] = StrV(<<"h">>)
    /\ ~Has(Opts, "port")

\* the option a URL field is returned under, and the value it is returned with
FieldKeys == {"user", "password", "host", "database"}
FieldOf(key) == IF key = "user" THEN "username" ELSE key
FieldValue(url, key) ==
    IF key = "host" /\ Truthy(url.port) THEN HostSlashPort(url) ELSE url[FieldOf(key)]

\* C8: in the returned options every query key has the query's value
\* (type_conv its integer); user, password, host and database, when the URL
\* sets them, have the URL's value unless the query has the key; the
\* positional arguments are empty
C8_QueryMerge ==
    Returned("create_connect_args") =>
        /\ result.val.args = <<>>
        /\ \A k \in DOMAIN Url.query :
              /\ Has(Opts, k)
              /\ k # "type_conv" => Opts[k] = Url.query[k]
              /\ k = "type_conv" => Opts[k] = IntV(TypeConvNumber(Url.query[k]))
        /\ \A k \in FieldKeys :
              (Truthy(Url[FieldOf(k)]) /\ ~Has(Url.query, k)) =>
                  (Has(Opts, k) /\ Opts[k] = FieldValue(Url, k))

\* the query's user replaced the URL's, and the URL's host/port was kept
C8_Witness ==
    /\ Returned("create_connect_args")
    /\ Url.username = StrV(<<"u">>)
    /\ Url.host = StrV(<<"h">>)
    /\ Url.port = IntV(3050)
    /\ DOMAIN Url.query = {"user", "type_conv"}
    /\ Opts["user"] = StrV(<<"q">>)
    /\ Opts["host"] = StrV(<<"h", "/", "3", "0", "5", "0">>)

----------------------------------------------------------------------------
(* Blob result processing *)

Value == request.arg

\* C5: None comes back as None with no method of the value called; a handle
\* that realizes to bytes comes back as those plain bytes and is not closed;
\* a handle whose realization raises a TypeError comes back as None and its
\* close method is called exactly once
C5_BlobProcessor ==
    Called("process") =>
        /\ Value = NoneBlob =>
              (result = Return(NoneBlob) /\ blob_calls = <<>>)
        /\ (Value.kind = "handle" /\ Value.realize = "ok") =>
              /\ result = Return(BlobValue("bytes", Value.data, "ok"))
              /\ NumberOf(blob_calls, "close") = 0
        /\ (Value.kind = "handle" /\ Value.realize = "TypeError") =>
              /\ result = Return(NoneBlob)
              /\ NumberOf(blob_calls, "close") = 1

\* a handle holding bytes failed with a TypeError: closed once, None returned
C5_Witness ==
    /\ Called("process")
    /\ Value = BlobValue("handle", <<1, 2>>, "TypeError")
    /\ result = Return(NoneBlob)
    /\ blob_calls = <<"bytes", "close">>

\* C10 as stated: for every value other than None whose realization into
\* bytes fails, the processor returns None instead of raising and has closed
\* the value
C10_AnyFailure ==
    (Called("process") /\ Value # NoneBlob /\ Value.realize # "ok") =>
        /\ result = Return(NoneBlob)
        /\ blob_calls # <<>>
        /\ blob_calls[Len(blob_calls)] = "close"

\* C10, amended: for every handle whose realization into bytes fails with a
\* TypeError, the processor returns None instead of raising and has closed
\* the handle
C10_TypeErrorOnly ==
    (Called("process") /\ Value.kind = "handle" /\ Value.realize = "TypeError") =>
        /\ result.kind # "raise"
        /\ result.val = NoneBlob
        /\ blob_calls # <<>>
        /\ blob_calls[Len(blob_calls)] = "close"

\* an empty handle failed with a TypeError and the caller got None
C10_Witness ==
    /\ Called("process")
    /\ Value = BlobValue("handle", <<>>, "TypeError")
    /\ result = Return(NoneBlob)
    /\ blob_calls[Len(blob_calls)] = "close"

----------------------------------------------------------------------------
(* The dialect across calls *)

\* C9: after any sequence of calls, returned or raised, the dialect holds the
\* three flags it was constructed with and nothing else, every call was made
\* under those same flags, and two calls of the same operation with the same
\* argument had the same outcome, whatever was called between them
C9_NoRetainedState ==
    /\ DOMAIN dialect = {"is_interbase", "enable_rowcount", "retaining"}
    /\ \A f \in DOMAIN dialect : dialect[f] \in BOOLEAN
    /\ \A i \in 1..Len(log) : log[i].flags = dialect
    /\ \A i \in 1..Len(log) : \A j \in 1..Len(log) :
          (/\ log[i].request.op = log[j].request.op
           /\ log[i].request.arg = log[j].request.arg) =>
              log[i].result = log[j].result

\* a version probe that failed twice was repeated after a blob was processed,
\* and failed the same way
C9_Witness ==
    /\ Len(log) = 3
    /\ log[1].request.op = "_get_server_version_info"
    /\ log[1].result.kind = "raise"
    /\ log[2].request.op = "process"
    /\ log[3].request = log[1].request
    /\ log[3].result = log[1].result

====
